---------------------------- MODULE Spec2Model ----------------------------
(***************************************************************************)
(* Model of protflow/tools/rosetta.py: the score reconciliation routine    *)
(* collect_scores and the stage driver Rosetta.run.                        *)
(*                                                                         *)
(* Strings are sequences of one-character strings, so that str.split,      *)
(* str.join, str.replace and the glob patterns are computed character by   *)
(* character, the way Python computes them.                                *)
(***************************************************************************)
EXTENDS Naturals, Integers, Sequences, FiniteSets, TLC

(***************************************************************************)
(* Bounds of the model.                                                    *)
(***************************************************************************)
MaxRecs == 2        \* record files in the working directory
MaxLeftover == 1    \* raw-named artifacts that have no record file
MaxCalls == 2       \* successive calls of collect_scores on one directory
MaxRuns == 2        \* successive calls of Rosetta.run on one working directory
MaxNstruct == 1     \* the nstruct argument of Rosetta.run

(***************************************************************************)
(* String literals.                                                        *)
(***************************************************************************)
US == <<"_">>
SLASH == <<"/">>
CH_r == <<"r">>
PDB_EXT == <<".", "p", "d", "b">>
SCORE_SUFFIX == <<"_", "s", "c", "o", "r", "e", ".", "j", "s", "o", "n">>
WorkDir == <<"/", "w">>
T_r0001 == <<"r", "0", "0", "0", "1">>
T_r0002 == <<"r", "0", "0", "0", "2">>
T_r0007 == <<"r", "0", "0", "0", "7">>
T_0001 == <<"0", "0", "0", "1">>
T_0002 == <<"0", "0", "0", "2">>
T_a == <<"a">>
T_b == <<"b">>
T_ra == <<"r", "a">>
T_myprotein == <<"m", "y", "p", "r", "o", "t", "e", "i", "n">>
T_design == <<"d", "e", "s", "i", "g", "n">>
Malformed == <<"{">>
None == <<>>

(***************************************************************************)
(* Python string and list primitives.                                      *)
(***************************************************************************)
StartsWith(s, p) == Len(s) >= Len(p) /\ SubSeq(s, 1, Len(p)) = p

EndsWith(s, p) == Len(s) >= Len(p) /\ SubSeq(s, Len(s) - Len(p) + 1, Len(s)) = p

\* The element of a one-element set.  The string operators below bind their
\* argument as the element of a set, so that it is evaluated once however often
\* the body reads it.
The(S) == CHOOSE y \in S : TRUE

\* the n-th smallest element of a finite set of numbers
Nth(S, n) == CHOOSE k \in S : Cardinality({m \in S : m <= k}) = n

\* str.split(c) for a one-character separator c: the pieces between the separators
Split(str, c) ==
    The({ LET seps == {k \in 1..Len(s) : s[k] = c}
              from(n) == IF n = 1 THEN 1 ELSE Nth(seps, n - 1) + 1
              to(n) == IF n = Cardinality(seps) + 1 THEN Len(s) ELSE Nth(seps, n) - 1
          IN  [n \in 1..(Cardinality(seps) + 1) |-> SubSeq(s, from(n), to(n))]
          : s \in {str} })

\* sep.join(list)
RECURSIVE Join(_, _)
Join(list, sep) ==
    The({ IF l = <<>> THEN <<>>
          ELSE IF Len(l) = 1 THEN l[1]
          ELSE l[1] \o sep \o Join(Tail(l), sep)
          : l \in {list} })

\* str.replace(pat, "") for a pattern that cannot overlap itself ("r", ".pdb"): the
\* characters of str outside every occurrence of pat
Remove(str, pat) ==
    The({ LET starts == {k \in 1..(Len(s) - Len(pat) + 1) :
                            SubSeq(s, k, k + Len(pat) - 1) = pat}
              keep == {k \in 1..Len(s) : \A m \in starts : k < m \/ k >= m + Len(pat)}
          IN  [n \in 1..Cardinality(keep) |-> s[Nth(keep, n)]]
          : s \in {str} })

\* l[1:-1]
Inner(list) == The({IF Len(l) <= 2 THEN <<>> ELSE SubSeq(l, 2, Len(l) - 1) : l \in {list}})

\* l[-1]
Last(list) == The({l[Len(l)] : l \in {list}})

\* str(n) for a natural number n
RECURSIVE Str(_)
Str(n) ==
    LET digits == <<"0", "1", "2", "3", "4", "5", "6", "7", "8", "9">>
    IN  IF n < 10 THEN <<digits[n + 1]>> ELSE Str(n \div 10) \o <<digits[(n % 10) + 1]>>

\* s.zfill(w)
RECURSIVE Zfill(_, _)
Zfill(s, w) == IF Len(s) >= w THEN s ELSE Zfill(<<"0">> \o s, w)

\* all orders in which the elements of a finite set can be listed
Orders(S) ==
    {q \in [1..Cardinality(S) -> S] : \A a, b \in 1..Cardinality(S) : q[a] = q[b] => a = b}

(***************************************************************************)
(* Paths and glob patterns.                                                *)
(***************************************************************************)
\* f"{work_dir}/{name}"
PathOf(name) == WorkDir \o SLASH \o name

\* path.split("/")[-1]
BaseName(path) == Last(Split(path, "/"))

\* glob pattern r*.pdb
MatchRPdb(name) ==
    /\ Len(name) >= Len(CH_r) + Len(PDB_EXT)
    /\ StartsWith(name, CH_r)
    /\ EndsWith(name, PDB_EXT)

\* glob pattern r*_*_score.json
MatchScoreJson(name) ==
    /\ Len(name) >= Len(CH_r) + Len(US) + Len(SCORE_SUFFIX)
    /\ StartsWith(name, CH_r)
    /\ EndsWith(name, SCORE_SUFFIX)
    /\ \E k \in 2..(Len(name) - Len(SCORE_SUFFIX)) : name[k] = "_"

(***************************************************************************)
(* The identifier derivation of collect_scores.                            *)
(***************************************************************************)
\* a derivation that keeps every token after the ordinal ([1:] for [1:-1])
Description_KeepsLast(raw) ==
    Join(Tail(Split(raw, "_")), US) \o US \o Remove(Split(raw, "_")[1], CH_r)

\* the description column: tokens [1:-1] joined, "_", token 0 without "r"
Description(raw) ==
    Join(Inner(Split(raw, "_")), US) \o US \o Remove(Split(raw, "_")[1], CH_r)

\* a sweep that keeps every token after the ordinal ([1:] for [1:-1])
SweepName_KeepsLast(pdb_path) ==
    LET idx == Remove(Split(pdb_path, "_")[1], CH_r)
    IN  Remove(Join(Tail(Split(pdb_path, "_")), US), PDB_EXT) \o US \o idx \o PDB_EXT

\* the sweep's new file name for a leftover r*.pdb file
SweepName(pdb_path) ==
    LET idx == Remove(Split(pdb_path, "_")[1], CH_r)
    IN  Remove(Join(Inner(Split(pdb_path, "_")), US), PDB_EXT) \o US \o idx \o PDB_EXT

\* shutil.move of one regular file inside the directory (the target is replaced)
Move(fs, src, dst) ==
    [n \in (DOMAIN fs \ {src}) \cup {dst} |-> IF n = dst THEN fs[src] ELSE fs[n]]


(***************************************************************************)
(* The inputs: decoy values <ordinal>_<token>_..._<token> as the external  *)
(* tool writes them (ordinal "r" + four digits), with one to three tokens  *)
(* after the ordinal.                                                      *)
(***************************************************************************)
MkRaw(ord, toks) == Join(<<ord>> \o toks, US)

DecoyTokens ==
    { <<T_r0001, <<T_a, T_0001>>>>,
      <<T_r0001, <<T_a, T_0002>>>>,
      <<T_r0002, <<T_a, T_0001>>>>,
      <<T_r0001, <<T_ra, T_0001>>>>,
      <<T_r0001, <<T_a>>>>,
      <<T_r0007, <<T_myprotein, T_design>>>>,
      <<T_r0001, <<T_a, T_b, T_0001>>>> }

Decoys == {MkRaw(dt[1], dt[2]) : dt \in DecoyTokens}

\* name of the raw artifact the external tool writes for a decoy
RawArtifact(decoy) == decoy \o PDB_EXT

\* name of a record file holding one decoy (matches r*_*_score.json)
RecordFile(decoy) == decoy \o SCORE_SUFFIX

UpTo(S, n) == {T \in SUBSET S : Cardinality(T) <= n}

(***************************************************************************)
(* State.                                                                  *)
(***************************************************************************)
VARIABLES
    jsons,                  \* record files of work_dir: name -> content
    pdbs,                   \* artifact files of work_dir: name -> the name it was written under
    pending,                \* artifacts the external tool has not flushed to disk yet
    lag,                    \* the directory listing may lag behind a rename
    pc,                     \* position in collect_scores / Rosetta.run
    err,                    \* exception that ended the call, or "none"
    scorefiles,             \* line 132
    scores_l,               \* line 133
    scores_df,              \* line 136: sequence of rows
    i,                      \* index of the rename loop, line 146
    attempts,               \* attempts[k]: shutil.move calls made for row k
    remaining_r_pdbfiles,   \* line 156
    j,                      \* index of the sweep loop, line 157
    calls,                  \* calls of collect_scores started so far
    dir_at_call,            \* artifact names on disk when collect_scores was called
    flushed,                \* artifacts flushed during the call, and whether the barrier was waiting
    caller,                 \* "direct" or "run"
    scorefile,              \* the stage's consolidated score table on disk
    overwrite,              \* argument of the current Rosetta.run
    runs,                   \* calls of Rosetta.run started so far
    dispatched,             \* jobstarter.start calls made by the current Rosetta.run
    collected,              \* collect_scores calls made by the current Rosetta.run
    poses,                  \* basenames of the poses of the current Rosetta.run
    nstruct,                \* argument of the current Rosetta.run
    run_entry               \* what the current Rosetta.run found: the files, and whether the table existed

locals == <<scorefiles, scores_l, scores_df, i, attempts, remaining_r_pdbfiles, j>>
runvars == <<caller, scorefile, overwrite, runs, dispatched, collected, poses, nstruct, run_entry>>
vars == <<jsons, pdbs, pending, lag, pc, err, locals, calls, dir_at_call, flushed, runvars>>

Running == pc \notin {"idle", "done", "error", "run_done"}

\* glob(f"{work_dir}/r*.pdb"), as a set of paths
GlobRPdb(fs) == {PathOf(n) : n \in {m \in DOMAIN fs : MatchRPdb(m)}}

\* glob(os.path.join(work_dir, "r*_*_score.json")), as a set of paths
GlobScoreJson(js) == {PathOf(n) : n \in {m \in DOMAIN js : MatchScoreJson(m)}}

(***************************************************************************)
(* Initial states: a working directory as the external tool may leave it.  *)
(***************************************************************************)
InitLocals ==
    /\ scorefiles = <<>>
    /\ scores_l = <<>>
    /\ scores_df = <<>>
    /\ i = 1
    /\ attempts = <<>>
    /\ remaining_r_pdbfiles = <<>>
    /\ j = 1

InitDirectory(decoys) ==
    \E recs \in UpTo(decoys, MaxRecs) :
      \E bad \in UpTo(recs, 1), left \in UpTo(decoys \ recs, MaxLeftover),
         status \in [recs -> {"present", "pending", "absent"}] :
        /\ jsons = [n \in {RecordFile(d) : d \in recs} |->
                      LET d == CHOOSE d \in recs : RecordFile(d) = n
                      IN  IF d \in bad THEN Malformed ELSE d]
        /\ pdbs = [n \in {RawArtifact(d) : d \in {e \in recs : status[e] = "present"} \cup left}
                      |-> n]
        /\ pending = {RawArtifact(d) : d \in {e \in recs : status[e] = "pending"}}

InitDirect(decoys) ==
    /\ InitDirectory(decoys)
    /\ InitLocals
    /\ pc = "idle"
    /\ err = "none"
    /\ calls = 0
    /\ dir_at_call = {}
    /\ flushed = {}
    /\ caller = "direct"
    /\ scorefile = [exists |-> FALSE, table |-> <<>>]
    /\ overwrite = FALSE
    /\ runs = 0
    /\ dispatched = 0
    /\ collected = 0
    /\ poses = {}
    /\ nstruct = 1
    /\ run_entry = [pdbs |-> <<>>, jsons |-> <<>>, table_exists |-> FALSE]

Init == InitDirect(Decoys) /\ lag = FALSE

(***************************************************************************)
(* collect_scores(work_dir)                                                *)
(***************************************************************************)
\* a caller invokes collect_scores on the directory
Call ==
    /\ pc \in {"idle", "done"}
    /\ caller = "direct"
    /\ calls < MaxCalls
    /\ pc' = "glob"
    /\ calls' = calls + 1
    /\ dir_at_call' = DOMAIN pdbs
    /\ flushed' = {}
    /\ err' = "none"
    /\ scorefiles' = <<>>
    /\ scores_l' = <<>>
    /\ scores_df' = <<>>
    /\ i' = 1
    /\ attempts' = <<>>
    /\ remaining_r_pdbfiles' = <<>>
    /\ j' = 1
    /\ UNCHANGED <<jsons, pdbs, pending, lag, runvars>>

\* line 132: the record files, in the order the directory yields them
GlobScores ==
    /\ pc = "glob"
    /\ \E order \in Orders(GlobScoreJson(jsons)) : scorefiles' = order
    /\ pc' = "read"
    /\ UNCHANGED <<jsons, pdbs, pending, lag, err, scores_l, scores_df, i, attempts,
                   remaining_r_pdbfiles, j, calls, dir_at_call, flushed, runvars>>

\* pd.read_json(scorefile, typ='series')["decoy"]; a malformed file raises
ReadJson(js, path) == js[BaseName(path)]

\* a reader that isolates each record: a malformed file is left out and the rest is kept
ReadScores_SkipsMalformed ==
    /\ pc = "read"
    /\ pc' = "build"
    /\ err' = err
    /\ scores_l' = LET good == SelectSeq(scorefiles, LAMBDA p : ReadJson(jsons, p) # Malformed)
                   IN  [k \in 1..Len(good) |-> ReadJson(jsons, good[k])]
    /\ UNCHANGED <<jsons, pdbs, pending, lag, scorefiles, scores_df, i, attempts,
                   remaining_r_pdbfiles, j, calls, dir_at_call, flushed, runvars>>

\* lines 133-135: parse every record file
ReadScores ==
    /\ pc = "read"
    /\ IF \E k \in 1..Len(scorefiles) : ReadJson(jsons, scorefiles[k]) = Malformed
       THEN /\ pc' = "error"
            /\ err' = "ValueError"
            /\ scores_l' = scores_l
       ELSE /\ pc' = "build"
            /\ err' = err
            /\ scores_l' = [k \in 1..Len(scorefiles) |-> ReadJson(jsons, scorefiles[k])]
    /\ UNCHANGED <<jsons, pdbs, pending, lag, scorefiles, scores_df, i, attempts,
                   remaining_r_pdbfiles, j, calls, dir_at_call, flushed, runvars>>

\* a derivation that numbers a row by its position in the table
RowDescription_ByPosition(l, k) ==
    Join(Inner(Split(l[k], "_")), US) \o US \o Zfill(Str(k), 4)

\* line 137: the description of row k of the table
RowDescription(l, k) == Description(l[k])

\* lines 136-137: the table; an empty frame has no raw_description column
BuildTable ==
    /\ pc = "build"
    /\ IF scores_l = <<>>
       THEN /\ pc' = "error"
            /\ err' = "KeyError"
            /\ scores_df' = scores_df
       ELSE /\ pc' = "barrier"
            /\ err' = err
            /\ scores_df' = [k \in 1..Len(scores_l) |->
                               [raw_description |-> scores_l[k],
                                description |-> RowDescription(scores_l, k),
                                location |-> None]]
    /\ UNCHANGED <<jsons, pdbs, pending, lag, scorefiles, scores_l, i, attempts,
                   remaining_r_pdbfiles, j, calls, dir_at_call, flushed, runvars>>

\* a barrier that waits until there are more files than rows (<= for <)
BarrierOpen_Strict(fs, df) == ~(Cardinality(GlobRPdb(fs)) <= Len(df))

\* line 140: the loop condition of the readiness barrier
BarrierOpen(fs, df) == ~(Cardinality(GlobRPdb(fs)) < Len(df))

\* line 140: test the barrier
Barrier ==
    /\ pc = "barrier"
    /\ pc' = IF BarrierOpen(pdbs, scores_df) THEN "rename" ELSE "sleep"
    /\ i' = 1
    /\ UNCHANGED <<jsons, pdbs, pending, lag, err, scorefiles, scores_l, scores_df, attempts,
                   remaining_r_pdbfiles, j, calls, dir_at_call, flushed, runvars>>

\* line 141: time.sleep(1)
Sleep ==
    /\ pc = "sleep"
    /\ pc' = "barrier"
    /\ UNCHANGED <<jsons, pdbs, pending, lag, err, locals, calls, dir_at_call, flushed, runvars>>

\* the external tool flushes one of its artifacts to disk
Flush ==
    /\ Running
    /\ \E f \in pending :
         /\ pdbs' = [n \in DOMAIN pdbs \cup {f} |-> IF n = f THEN f ELSE pdbs[n]]
         /\ pending' = pending \ {f}
         /\ flushed' = flushed \cup {[file |-> f, at |-> IF pc \in {"barrier", "sleep"}
                                                          THEN "barrier" ELSE "other"]}
    /\ UNCHANGED <<jsons, lag, pc, err, locals, calls, dir_at_call, runvars>>


\* os.path.isfile(nf) right after the move, under a listing that may be stale
IsFile(fs, name, stale) == name \in DOMAIN fs /\ ~stale

\* lines 146-150: rename the artifact of row i, retrying once if the target is not seen
RenameRow ==
    /\ pc = "rename"
    /\ i <= Len(scores_df)
    /\ LET src == scores_df[i].raw_description \o PDB_EXT
           nf == scores_df[i].description \o PDB_EXT
           next_pc == IF i = Len(scores_df) THEN "location" ELSE "rename"
       IN  IF src \notin DOMAIN pdbs
           THEN /\ pc' = "error"
                /\ err' = "FileNotFoundError"
                /\ attempts' = Append(attempts, 1)
                /\ UNCHANGED <<pdbs, i>>
           ELSE \E stale \in (IF lag THEN BOOLEAN ELSE {FALSE}) :
                  LET moved == Move(pdbs, src, nf)
                  IN  IF IsFile(moved, nf, stale)
                      THEN /\ pdbs' = moved
                           /\ attempts' = Append(attempts, 1)
                           /\ pc' = next_pc
                           /\ i' = i + 1
                           /\ err' = err
                      ELSE IF src \in DOMAIN moved
                      THEN /\ pdbs' = Move(moved, src, nf)
                           /\ attempts' = Append(attempts, 2)
                           /\ pc' = next_pc
                           /\ i' = i + 1
                           /\ err' = err
                      ELSE /\ pdbs' = moved
                           /\ attempts' = Append(attempts, 2)
                           /\ pc' = "error"
                           /\ err' = "FileNotFoundError"
                           /\ i' = i
    /\ UNCHANGED <<jsons, pending, lag, scorefiles, scores_l, scores_df,
                   remaining_r_pdbfiles, j, calls, dir_at_call, flushed, runvars>>

\* line 153: the location column
Location(description) == WorkDir \o SLASH \o description \o PDB_EXT

SetLocation ==
    /\ pc = "location"
    /\ scores_df' = [k \in 1..Len(scores_df) |->
                       [scores_df[k] EXCEPT !.location = Location(scores_df[k].description)]]
    /\ pc' = "sweep_glob"
    /\ UNCHANGED <<jsons, pdbs, pending, lag, err, scorefiles, scores_l, i, attempts,
                   remaining_r_pdbfiles, j, calls, dir_at_call, flushed, runvars>>

\* line 156: the files that still match r*.pdb, in the order the directory yields them
SweepGlob ==
    /\ pc = "sweep_glob"
    /\ \E order \in Orders(GlobRPdb(pdbs)) :
         /\ remaining_r_pdbfiles' = order
         /\ pc' = IF order = <<>> THEN "return" ELSE "sweep"
    /\ j' = 1
    /\ UNCHANGED <<jsons, pdbs, pending, lag, err, scorefiles, scores_l, scores_df, i, attempts,
                   calls, dir_at_call, flushed, runvars>>

\* lines 157-161: rename one file of the sweep list
SweepRow ==
    /\ pc = "sweep"
    /\ j <= Len(remaining_r_pdbfiles)
    /\ LET pdb_path == BaseName(remaining_r_pdbfiles[j])
           new_name == SweepName(pdb_path)
       IN  IF pdb_path \notin DOMAIN pdbs
           THEN /\ pc' = "error"
                /\ err' = "FileNotFoundError"
                /\ UNCHANGED <<pdbs, j>>
           ELSE /\ pdbs' = Move(pdbs, pdb_path, new_name)
                /\ j' = j + 1
                /\ pc' = IF j = Len(remaining_r_pdbfiles) THEN "return" ELSE "sweep"
                /\ err' = err
    /\ UNCHANGED <<jsons, pending, lag, scorefiles, scores_l, scores_df, i, attempts,
                   remaining_r_pdbfiles, calls, dir_at_call, flushed, runvars>>

\* lines 164-166: return the table (to Rosetta.run, when it is the caller)
Return ==
    /\ pc = "return"
    /\ pc' = IF caller = "run" THEN "save" ELSE "done"
    /\ UNCHANGED <<jsons, pdbs, pending, lag, err, locals, calls, dir_at_call, flushed, runvars>>

CollectStep ==
    \/ GlobScores
    \/ ReadScores
    \/ BuildTable
    \/ Barrier
    \/ Sleep
    \/ RenameRow
    \/ SetLocation
    \/ SweepGlob
    \/ SweepRow
    \/ Return

Next ==
    \/ Call
    \/ CollectStep
    \/ Flush

Spec == Init /\ [][Next]_vars

\* the same program on a file system whose directory listing may lag behind a rename
InitRace == InitDirect(Decoys) /\ lag = TRUE

SpecRace == InitRace /\ [][Next]_vars

\* the directories of the liveness checks: fewer decoy values, the same shapes
LiveDecoys ==
    { MkRaw(T_r0001, <<T_a, T_0001>>),
      MkRaw(T_r0002, <<T_a, T_0001>>),
      MkRaw(T_r0001, <<T_ra, T_0001>>) }

InitLive == InitDirect(LiveDecoys) /\ lag = FALSE

\* the program's own steps are taken as long as they are possible; the external
\* tool's flushes are not forced
SpecLive == InitLive /\ [][Next]_vars /\ WF_vars(Call \/ CollectStep)


(***************************************************************************)
(* Rosetta.run(poses, prefix, nstruct, overwrite)                          *)
(***************************************************************************)
PoseNames == {T_a, T_ra}

\* line 125: the -out:prefix of command i, r{str(i).zfill(4)}_
OutPrefix(n) == CH_r \o Zfill(Str(n), 4) \o US

\* line 125: the -out:file:scorefile of command i for a pose
ScorefileName(pose, n) == OutPrefix(n) \o pose \o SCORE_SUFFIX

\* the decoy the external tool records for command i of a pose: prefix, pose, its own counter
DecoyOf(pose, n) == OutPrefix(n) \o pose \o US \o T_0001

\* lines 84-87: one command per pose and per i in 1..nstruct
Cmds(ps, ns) == {<<pose, n>> : pose \in ps, n \in 1..ns}

\* Runner.check_for_existing_scorefile: the stored table unless overwrite is set
CheckForExistingScorefile(sf, ow) ==
    IF sf.exists /\ ~ow THEN [found |-> TRUE, scores |-> sf.table]
                        ELSE [found |-> FALSE, scores |-> <<>>]

\* what the dispatched commands leave in the directory: for every command its record
\* file and, on disk already or still to be flushed, its artifact
JobstarterStart(js, cmds) ==
    [n \in DOMAIN js \cup {ScorefileName(c[1], c[2]) : c \in cmds} |->
        IF \E c \in cmds : ScorefileName(c[1], c[2]) = n
        THEN LET c == CHOOSE c \in cmds : ScorefileName(c[1], c[2]) = n
             IN  DecoyOf(c[1], c[2])
        ELSE js[n]]

InitRun ==
    /\ jsons = <<>>
    /\ pdbs = <<>>
    /\ pending = {}
    /\ lag = FALSE
    /\ InitLocals
    /\ pc = "idle"
    /\ err = "none"
    /\ calls = 0
    /\ dir_at_call = {}
    /\ flushed = {}
    /\ caller = "run"
    /\ scorefile = [exists |-> FALSE, table |-> <<>>]
    /\ overwrite = FALSE
    /\ runs = 0
    /\ dispatched = 0
    /\ collected = 0
    /\ poses \in (SUBSET PoseNames) \ {{}}
    /\ nstruct \in 1..MaxNstruct
    /\ run_entry = [pdbs |-> <<>>, jsons |-> <<>>, table_exists |-> FALSE]

\* line 56: the pipeline runs the stage, with or without overwrite
RunCall ==
    /\ pc \in {"idle", "run_done"}
    /\ caller = "run"
    /\ runs < MaxRuns
    /\ runs' = runs + 1
    /\ overwrite' \in BOOLEAN
    /\ dispatched' = 0
    /\ collected' = 0
    /\ run_entry' = [pdbs |-> pdbs, jsons |-> jsons, table_exists |-> scorefile.exists]
    /\ pc' = "run_check"
    /\ UNCHANGED <<jsons, pdbs, pending, lag, err, locals, calls, dir_at_call, flushed,
                   caller, scorefile, poses, nstruct>>

\* a test that skips on any existing table, forced or not
SkipStage_IgnoresOverwrite(sf, ow) == sf.exists

\* line 70: the stage is skipped when check_for_existing_scorefile returns scores
SkipStage(sf, ow) == CheckForExistingScorefile(sf, ow).found

\* lines 68-77: skip the stage on an existing table, or clear the old record files
RunCheck ==
    /\ pc = "run_check"
    /\ IF SkipStage(scorefile, overwrite)
       THEN /\ pc' = "run_done"
            /\ jsons' = jsons
       ELSE /\ pc' = "dispatch"
            /\ jsons' = IF overwrite
                        THEN [n \in {m \in DOMAIN jsons : ~MatchScoreJson(m)} |-> jsons[n]]
                        ELSE jsons
    /\ UNCHANGED <<pdbs, pending, lag, err, locals, calls, dir_at_call, flushed, runvars>>

\* lines 79-101: dispatch the commands, wait for them, and enter collect_scores; at most
\* one artifact of the dispatch has not reached the disk yet (the comment of line 139)
Dispatch ==
    /\ pc = "dispatch"
    /\ LET cmds == Cmds(poses, nstruct)
           written == {RawArtifact(DecoyOf(c[1], c[2])) : c \in cmds}
       IN  /\ jsons' = JobstarterStart(jsons, cmds)
           /\ \E lagging \in UpTo(written, 1) :
                /\ pending' = lagging
                /\ pdbs' = [n \in DOMAIN pdbs \cup (written \ lagging) |->
                              IF n \in written THEN n ELSE pdbs[n]]
                /\ dir_at_call' = DOMAIN pdbs \cup (written \ lagging)
    /\ dispatched' = dispatched + 1
    /\ collected' = collected + 1
    /\ calls' = calls + 1
    /\ flushed' = {}
    /\ pc' = "glob"
    /\ err' = "none"
    /\ scorefiles' = <<>>
    /\ scores_l' = <<>>
    /\ scores_df' = <<>>
    /\ i' = 1
    /\ attempts' = <<>>
    /\ remaining_r_pdbfiles' = <<>>
    /\ j' = 1
    /\ UNCHANGED <<lag, caller, scorefile, overwrite, runs, poses, nstruct, run_entry>>

\* lines 102-104: save_runner_scorefile and return
Save ==
    /\ pc = "save"
    /\ scorefile' = [exists |-> TRUE, table |-> scores_df]
    /\ pc' = "run_done"
    /\ UNCHANGED <<jsons, pdbs, pending, lag, err, locals, calls, dir_at_call, flushed,
                   caller, overwrite, runs, dispatched, collected, poses, nstruct, run_entry>>

NextRun ==
    \/ RunCall
    \/ RunCheck
    \/ Dispatch
    \/ CollectStep
    \/ Flush
    \/ Save

SpecRun == InitRun /\ [][NextRun]_vars


(***************************************************************************)
(* Properties.                                                             *)
(***************************************************************************)
Rows == {scores_df[k] : k \in 1..Len(scores_df)}

Returned == pc = "done"

\* no flush and no stale listing during the call, and nothing left to be flushed
NoOtherWriter == ~lag /\ flushed = {} /\ pending = {}

Front(l) == SubSeq(l, 1, Len(l) - 1)

\* C1: whenever the decoy values of the rows of the returned table are pairwise
\* distinct, so are their descriptions.
C1_DescriptionsUnique ==
    Returned =>
        ((\A a, b \in 1..Len(scores_df) :
              a # b => scores_df[a].raw_description # scores_df[b].raw_description)
         => (\A a, b \in 1..Len(scores_df) :
              a # b => scores_df[a].description # scores_df[b].description))

C3_LocationExists ==
    (Returned /\ NoOtherWriter) =>
        \A row \in Rows :
            /\ row.location = WorkDir \o SLASH \o row.description \o PDB_EXT
            /\ BaseName(row.location) \in DOMAIN pdbs


\* C4: a second call of collect_scores on a directory the first call has reconciled,
\* with no new input in between, returns a table with zero rows.
C4_SecondRunEmpty ==
    []((calls = 2 /\ pc = "glob" /\ pending = {})
          => <>(Returned /\ calls = 2 /\ Len(scores_df) = 0))

\* a raw-named artifact that was in the directory at the call and has no record file
Unrecorded(d) == RawArtifact(d) \in dir_at_call /\ RecordFile(d) \notin DOMAIN jsons

\* a raw-named artifact that was in the directory at the call and whose record file
\* cannot be parsed
Corrupted(d) ==
    /\ RawArtifact(d) \in dir_at_call
    /\ RecordFile(d) \in DOMAIN jsons
    /\ jsons[RecordFile(d)] = Malformed

\* the artifact is on disk under the name the main loop's rule gives it, its raw name
\* is gone, and the table has no row for it
SweptToCanonical(d) ==
    /\ (Description(d) \o PDB_EXT) \in DOMAIN pdbs
    /\ RawArtifact(d) \notin DOMAIN pdbs
    /\ \A row \in Rows : row.raw_description # d

ParseFailed == pc = "error" /\ err = "ValueError"

AllRowsFlushedAtBarrier ==
    /\ Len(scores_df) > 0
    /\ \A row \in Rows :
         [file |-> row.raw_description \o PDB_EXT, at |-> "barrier"] \in flushed

\* C6: if the raw artifacts of all rows reach the disk only while collect_scores is
\* waiting at the readiness barrier, then once all are there collect_scores
\* eventually leaves the barrier and returns the table.
C6_BarrierReleases ==
    []((pc \in {"barrier", "sleep"} /\ AllRowsFlushedAtBarrier)
          => <>(Returned /\ Len(scores_df) > 0))

C6_Witness == Returned /\ AllRowsFlushedAtBarrier

\* the rows the record files of the directory give, in no order
ExpectedRows ==
    {[raw_description |-> d,
      description |-> Description(d),
      location |-> Location(Description(d))] :
        d \in {jsons[BaseName(p)] : p \in GlobScoreJson(jsons)}}

\* the file names left by sweeping a list of paths
RECURSIVE SweepNames(_, _)
SweepNames(names, list) ==
    IF list = <<>> THEN names
    ELSE SweepNames((names \ {BaseName(Head(list))}) \cup {SweepName(BaseName(Head(list)))},
                    Tail(list))

\* the file names the directory contents give, whatever the order of the record files
ExpectedFiles ==
    LET seen == dir_at_call \cup {f.file : f \in flushed}
        main == (seen \ {row.raw_description \o PDB_EXT : row \in ExpectedRows})
                  \cup {row.description \o PDB_EXT : row \in ExpectedRows}
    IN  SweepNames(main, remaining_r_pdbfiles)

C8_NoRecordsEmptyTable ==
    (GlobScoreJson(jsons) = {} /\ calls >= 1 /\ pc \in {"done", "error"})
        => (Returned /\ Len(scores_df) = 0)

\* the current Rosetta.run found the stage's table and was not told to overwrite
SkipCase == runs >= 1 /\ run_entry.table_exists /\ ~overwrite

\* C9: when the stage's table exists and overwrite is not set, Rosetta.run dispatches
\* nothing, does not call collect_scores and leaves every file of the directory as
\* it was; with overwrite set it dispatches the commands and rebuilds the table.
C9_SkipOrRebuild ==
    /\ SkipCase =>
         /\ pc \in {"run_check", "run_done"}
         /\ dispatched = 0
         /\ collected = 0
         /\ pdbs = run_entry.pdbs
         /\ jsons = run_entry.jsons
    /\ (pc = "run_done" /\ overwrite) =>
         /\ dispatched = 1
         /\ collected = 1
         /\ scorefile.exists
         /\ scorefile.table = scores_df
         /\ {row.raw_description : row \in Rows} = {DecoyOf(c[1], c[2]) : c \in Cmds(poses, nstruct)}

C9_Witness ==
    /\ pc = "run_done"
    /\ runs = 2
    /\ SkipCase
    /\ dispatched = 0
    /\ DOMAIN pdbs # {}

\* C10: when the target of a row's rename is not seen right after the rename, the
\* rename is made exactly once more and the loop goes on to the next row without an
\* error; no row gets more than two rename attempts.
C10_RetryThenProceed ==
    [][(pc = "rename" /\ Len(attempts') = Len(attempts) + 1) =>
          LET n == attempts'[Len(attempts')]
          IN  /\ n <= 2
              /\ (n = 2 => (pc' # "error" /\ i' = i + 1))]_vars

\* a record file the pattern of line 132 discovers cannot be parsed
MalformedDiscovered == \E p \in GlobScoreJson(jsons) : ReadJson(jsons, p) = Malformed

\* C11: if any discovered record file is malformed, collect_scores fails for the whole
\* batch: the call gets no further than the read, where it ends in the parse error;
\* there is no table and no partial list of the well-formed records, and every
\* artifact that was in the directory at the call is still there under the name it
\* was written under.
C11_MalformedFailsBatch ==
    MalformedDiscovered =>
        /\ pc \in {"idle", "glob", "read", "error"}
        /\ pc = "error" => err = "ValueError"
        /\ scores_l = <<>>
        /\ scores_df = <<>>
        /\ \A n \in DOMAIN pdbs : pdbs[n] = n
        /\ calls >= 1 => dir_at_call \subseteq DOMAIN pdbs

C11_Witness ==
    /\ ParseFailed
    /\ MalformedDiscovered
    /\ \E p \in GlobScoreJson(jsons) : ReadJson(jsons, p) # Malformed
    /\ \E d \in Decoys : Corrupted(d) /\ RawArtifact(d) \in DOMAIN pdbs

\* the file the main loop has made of a row's artifact: it has the row's canonical
\* name and holds what was written as the row's raw artifact
CanonicalOf(row, fs) ==
    /\ (row.description \o PDB_EXT) \in DOMAIN fs
    /\ fs[row.description \o PDB_EXT] = row.raw_description \o PDB_EXT

\* C12: a step of the sweep pass leaves every file unchanged that the main rename
\* loop has already given its canonical name description.pdb, whatever letter the
\* name begins with: the sweep renames only leftover raw-named artifacts.
C12_SweepLeavesCanonical ==
    [][(pc = "sweep" /\ j' = j + 1) =>
          \A row \in Rows : CanonicalOf(row, pdbs) => CanonicalOf(row, pdbs')]_vars

\* the artifact files collect_scores has had before it: those in the directory at the
\* call and those the external tool flushed during the call
ArtifactsSeen == dir_at_call \cup {f.file : f \in flushed}

\* C13: collect_scores never loses an artifact: when it returns, the directory holds
\* as many .pdb files as it was given, so no rename of the main loop or of the sweep
\* has overwritten another artifact.
C13_NoArtifactLost ==
    Returned => Cardinality(DOMAIN pdbs) = Cardinality(ArtifactsSeen)

=============================================================================
